---- MODULE Spec2Model ----
(***************************************************************************)
(* A model of serializablecallable/base.py: the namespace resolver, the    *)
(* callable classifier (serialize_callable), the deserializer, the gate    *)
(* serialize_callable_and_test, the source dedenter extract_source and the *)
(* validation harness test_callable with its import interceptor.           *)
(*                                                                         *)
(* Three groups of variables, one per part of the program:                 *)
(*   - the serialization pipeline (SpecSer),                               *)
(*   - extract_source on a text (SpecSrc),                                 *)
(*   - test_callable runs on the process-wide import hook (SpecVal for one *)
(*     run, SpecConc for two runs on two threads).                         *)
(* Python values compare by ==, which is the equality of the model values. *)
(***************************************************************************)
EXTENDS Integers, Sequences, FiniteSets, TLC

VARIABLES
    \* ---- serialization pipeline (serialize_callable_and_test) ----
    sysmodules,      \* sys.modules: module name -> module object
    modules,         \* the `modules` argument: a sequence of module objects
    c,               \* the `c` argument: the callable
    pc,              \* position in serialize_callable_and_test
    namespace,       \* the dict namespace_for_modules(modules) built
    serialized_c,    \* line 21
    rebuilt,         \* the value of the call on line 23
    mock_namespace,  \* line 27
    mock_c_rebuilt,  \* line 31
    result,          \* what the caller of serialize_callable_and_test gets
    steps,           \* the calls completed so far, in order
    reser,           \* serialize_callable applied to `rebuilt`
    \* ---- extract_source ----
    text,            \* what inspect.getsource returns
    extracted,       \* what extract_source returns
    xpc,             \* "call" | "done"
    \* ---- test_callable ----
    threads,         \* the threads that run test_callable
    hook,            \* builtins.__import__
    hook0,           \* builtins.__import__ before any run started
    entry,           \* per thread: builtins.__import__ when the run entered
    tpc,             \* per thread: position in test_callable
    orig_import,     \* per thread: line 49
    temp_original,   \* per thread: what patch saved on entering the with block
    stack,           \* per thread: the import_mock closures being executed
    nimports,        \* imports attempted so far by the callables under validation
    exists,          \* per thread: whether the module being imported exists
    catches,         \* per thread: whether the import is inside try/except
    exc,             \* per thread: the exception in flight or raised
    received,        \* per thread: what the callable's imports returned
    handled          \* per thread: who handled each import of the callable

serVars == <<sysmodules, modules, c, pc, namespace, serialized_c, rebuilt,
             mock_namespace, mock_c_rebuilt, result, steps, reser>>
srcVars == <<text, extracted, xpc>>
valVars == <<threads, hook, hook0, entry, tpc, orig_import, temp_original,
             stack, nimports, exists, catches, exc, received, handled>>
vars == <<serVars, srcVars, valVars>>

-----------------------------------------------------------------------------
(* Bounds of the model.                                                    *)
MaxModules == 2
MaxText == 5
MaxImports == 2

-----------------------------------------------------------------------------
(* Python dicts keep insertion order: a dict is a sequence of <<key,       *)
(* value>> pairs with distinct keys.                                       *)

DictKeys(d) == {d[i][1] : i \in 1..Len(d)}

DictValues(d) == {d[i][2] : i \in 1..Len(d)}

DictHas(d, k) == \E i \in 1..Len(d) : d[i][1] = k

DictGet(d, k) == d[CHOOSE i \in 1..Len(d) : d[i][1] = k][2]

\* d[k] = v: an existing key keeps its position, a new key goes last.
DictSet(d, k, v) ==
    IF DictHas(d, k)
    THEN [i \in 1..Len(d) |-> IF d[i][1] = k THEN <<k, v>> ELSE d[i]]
    ELSE Append(d, <<k, v>>)

RECURSIVE DictUpdate(_, _)
\* d.update(e), and dict(pairs) as DictUpdate(<<>>, pairs).
DictUpdate(d, e) ==
    IF e = <<>> THEN d
    ELSE DictUpdate(DictSet(d, Head(e)[1], Head(e)[2]), Tail(e))

-----------------------------------------------------------------------------
(* Names are Python strings: sequences of characters.                      *)

NameF == <<"f">>
NameG == <<"g">>
NameFile == <<"_", "_", "f", "i", "l", "e", "_", "_">>
NameLambda == <<"<", "l", "a", "m", "b", "d", "a", ">">>
NoName == <<>>

MemberNames == {NameF, NameG}

startswith(k, p) == Len(k) >= Len(p) /\ SubSeq(k, 1, Len(p)) = p

endswith(k, p) == Len(k) >= Len(p) /\ SubSeq(k, Len(k) - Len(p) + 1, Len(k)) = p

\* line 28: k.startswith('__') and k.endswith('__')
IsDunder(k) == startswith(k, <<"_", "_">>) /\ endswith(k, <<"_", "_">>)

CharCode ==
    [ch \in {"<", ">", "_", "a", "b", "d", "e", "f", "g", "i", "l", "m"} |->
        CASE ch = "<" -> 60 [] ch = ">" -> 62 [] ch = "_" -> 95
          [] ch = "a" -> 97 [] ch = "b" -> 98 [] ch = "d" -> 100
          [] ch = "e" -> 101 [] ch = "f" -> 102 [] ch = "g" -> 103
          [] ch = "i" -> 105 [] ch = "l" -> 108 [] ch = "m" -> 109]

\* Python's < on strings, the order inspect.getmembers sorts by.
NameLess(a, b) ==
    \/ Len(a) < Len(b) /\ SubSeq(b, 1, Len(a)) = a
    \/ \E i \in 1..Len(a) :
          /\ i <= Len(b)
          /\ SubSeq(a, 1, i - 1) = SubSeq(b, 1, i - 1)
          /\ CharCode[a[i]] < CharCode[b[i]]

-----------------------------------------------------------------------------
(* Source texts, as far as exec and the rebuilt function depend on them:   *)
(* the name the text defines, the indentation of its first line, whether   *)
(* executing it raises ("ok", "raises", or "needs_dunder": the definition  *)
(* reads the module member __file__ when executed), and whether the body   *)
(* of the defined function raises when called with stand-in arguments.     *)

Src(d, ind, ex, b) == [defines |-> d, indent |-> ind, exec |-> ex, body |-> b]

NoAttr == Src(NoName, 0, "noattr", "noattr")      \* the attribute is not set
None == Src(NoName, 0, "None", "None")            \* Python's None
NoSrc == Src(NoName, 0, "nosource", "nosource")   \* inspect.getsource raises

(* Python objects. kind: "function", "partial" (functools.partial),        *)
(* "callobj" (an instance with __call__), "str", "mock" (MagicMock),       *)
(* "absent" (no object). name is __name__ (NoName: no such attribute),     *)
(* h5_source and source are the attributes of these names, src is what     *)
(* inspect.getsource gives (its body field says what calling the object   *)
(* with stand-in arguments does), globals is the dict a function created   *)
(* by exec was defined in (<<>> for the others).                           *)
Obj(k, i, n, h, s, e, hash) ==
    [kind |-> k, id |-> i, name |-> n, hashable |-> hash,
     h5_source |-> h, source |-> NoAttr, src |-> s, globals |-> e]

Absent == Obj("absent", "", NoName, NoAttr, NoSrc, <<>>, FALSE)
StrObj(s) == Obj("str", s, NoName, NoAttr, NoSrc, <<>>, TRUE)
MagicMock == Obj("mock", "", NoName, NoAttr, NoSrc, <<>>, TRUE)

\* Members a module can bind to f or g.
Fn1 == Obj("function", "fn1", NameF, NoAttr, Src(NameF, 0, "ok", "returns"), <<>>, TRUE)
Fn2 == Obj("function", "fn2", NameG, NoAttr, Src(NameG, 0, "ok", "returns"), <<>>, TRUE)
Part1 == Obj("partial", "part1", NoName, NoAttr, NoSrc, <<>>, TRUE)
UCall == Obj("callobj", "ucall", NoName, NoAttr, NoSrc, <<>>, FALSE)
MemberValues == {Fn1, Fn2, Part1, UCall}

\* Callables bound in no module.
NovelOk == Obj("function", "novel", NameF, NoAttr, Src(NameF, 4, "ok", "returns"), <<>>, TRUE)
NovelBuiltin == Obj("function", "builtin", NameF, NoAttr, NoSrc, <<>>, TRUE)
NovelLambda == Obj("function", "lambda", NameLambda, NoAttr, Src(NameG, 0, "ok", "returns"), <<>>, TRUE)
NovelExecRaises == Obj("function", "execraises", NameG, NoAttr, Src(NameG, 0, "raises", "returns"), <<>>, TRUE)
NovelNeedsDunder == Obj("function", "needsdunder", NameG, NoAttr, Src(NameG, 0, "needs_dunder", "returns"), <<>>, TRUE)
NovelBodyRaises == Obj("function", "bodyraises", NameF, NoAttr, Src(NameF, 4, "ok", "raises"), <<>>, TRUE)
NovelPartial == Obj("partial", "part2", NoName, NoAttr, NoSrc, <<>>, TRUE)
TaggedPartial == Obj("partial", "part3", NoName, Src(NameF, 0, "ok", "returns"), NoSrc, <<>>, TRUE)
Callables ==
    MemberValues \cup {NovelOk, NovelBuiltin, NovelLambda, NovelExecRaises,
                       NovelNeedsDunder, NovelBodyRaises, NovelPartial, TaggedPartial}

callable(o) == o.kind \in {"function", "partial", "callobj", "mock"}

hasattr_h5_source(o) == o.h5_source # NoAttr

\* Module objects: __name__ and the members f and g (Absent: not defined).
ModuleNames == {"A", "B"}
ModuleObjects == [name : ModuleNames, attrs : [MemberNames -> MemberValues \cup {Absent}]]

-----------------------------------------------------------------------------
(* 4.1 Namespace resolver.                                                 *)

RECURSIVE SortByName(_)
\* sorted(pairs): inspect.getmembers returns the members sorted by name.
SortByName(S) ==
    IF S = {} THEN <<>>
    ELSE LET x == CHOOSE x \in S : \A y \in S \ {x} : NameLess(x[1], y[1])
         IN <<x>> \o SortByName(S \ {x})

\* The attributes of a module object: __file__, and f and g when bound.
Members(m) ==
    {<<NameFile, StrObj(m.name)>>}
    \cup {<<k, m.attrs[k]>> : k \in {n \in MemberNames : m.attrs[n] # Absent}}

\* inspect.getmembers(module): the (name, value) pairs sorted by name.
getmembers(m) == SortByName(Members(m))

namespace_for_module(m) == DictUpdate(<<>>, getmembers(m))

RECURSIVE UpdateAll(_, _)
\* lines 138-139: for m in modules: namespace.update(namespace_for_module(m))
UpdateAll(ns, ms) ==
    IF ms = <<>> THEN ns
    ELSE UpdateAll(DictUpdate(ns, namespace_for_module(Head(ms))), Tail(ms))

Reverse(s) == [i \in 1..Len(s) |-> s[Len(s) + 1 - i]]

\* A merge in which the first module that defines a name wins.
namespace_for_modules_first_wins(ms) == UpdateAll(<<>>, Reverse(ms))

namespace_for_modules(ms) == UpdateAll(<<>>, ms)

module_to_str(m) == m.name

str_to_module(module_str) == sysmodules[module_str]

-----------------------------------------------------------------------------
(* Results of calls: a value, or an exception.                             *)

NoVal == Absent
Ok(v) == [tag |-> "ok", val |-> v, err |-> ""]
Raise(e) == [tag |-> "raise", val |-> NoVal, err |-> e]

SerializedCallable(n, s, ms) == [name |-> n, source |-> s, modules |-> ms]
NoRecord == SerializedCallable(NoName, NoAttr, <<>>)

-----------------------------------------------------------------------------
(* 4.2 / 4.3 Classifier, serializer, deserializer.                         *)

\* lines 76-77
name_to_callable(ms) ==
    SelectSeq(namespace_for_modules(ms), LAMBDA p : callable(p[2]) /\ p[2].hashable)

\* line 80: of several names bound to one callable the last one stays.
callable_to_name(ms) ==
    LET n2c == name_to_callable(ms)
    IN DictUpdate(<<>>, [i \in 1..Len(n2c) |-> <<n2c[i][2], n2c[i][1]>>])

\* lines 101-107 on the source descriptor: inspect.getsource, then the dedent.
ExtractedSource(cc) ==
    IF cc.src.exec = "nosource" THEN Raise("SourceUnavailable")
    ELSE Ok([cc.src EXCEPT !.indent = 0])

\* lines 86-88: hasattr(c, 'h5_source'), then c.__name__ and c.source
AttachedSourceRecord(cc, module_names) ==
    IF cc.name = NoName \/ cc.source = NoAttr THEN Raise("AttributeError")
    ELSE Ok(SerializedCallable(cc.name, cc.source, module_names))

\* The record named by c.__name__ instead of the name the namespace binds c to.
DirectReferenceByOwnName(cc, name, module_names) ==
    Ok(SerializedCallable(cc.name, None, module_names))

\* lines 83-85
DirectReferenceRecord(cc, name, module_names) ==
    Ok(SerializedCallable(name, None, module_names))

\* A classifier without the partial branch.
UnsupportedBranchMissing(cc) ==
    IF ExtractedSource(cc).tag = "raise" THEN ExtractedSource(cc)
    ELSE Ok(SerializedCallable(cc.name, ExtractedSource(cc).val, <<>>))

\* lines 89-93
UnsupportedBranch(cc) == Raise("ValueError")

\* lines 74-98
serialize_callable(cc, ms) ==
    LET c2n == callable_to_name(ms)
        module_names == [i \in 1..Len(ms) |-> module_to_str(ms[i])]
    IN IF ~cc.hashable THEN Raise("TypeError")     \* callable_to_name.get(c)
       ELSE IF DictHas(c2n, cc)
            THEN DirectReferenceRecord(cc, DictGet(c2n, cc), module_names)
       ELSE IF hasattr_h5_source(cc)
            THEN AttachedSourceRecord(cc, module_names)
       ELSE IF cc.kind = "partial" THEN UnsupportedBranch(cc)
       ELSE IF ExtractedSource(cc).tag = "raise" THEN ExtractedSource(cc)
       ELSE IF cc.name = NoName THEN Raise("AttributeError")
       ELSE Ok(SerializedCallable(cc.name, ExtractedSource(cc).val, module_names))

\* lines 143-152: exec in a copy of the namespace, then tag the binding.
safe_exec(source, ns, name) ==
    IF source.indent # 0 THEN Raise("IndentationError")
    ELSE IF source.exec = "raises" THEN Raise("ExecutionError")
    ELSE IF source.exec = "needs_dunder" /\ ~DictHas(ns, NameFile)
         THEN Raise("NameError")
    ELSE LET f0 == Obj("function", "exec", source.defines, NoAttr,
                       Src(NoName, 0, "nosource", source.body), ns, TRUE)
             ns2 == DictSet(ns, source.defines, f0)
         IN IF ~DictHas(ns2, name) THEN Raise("KeyError")
            ELSE IF DictGet(ns2, name).kind = "str" THEN Raise("AttributeError")
            ELSE Ok([DictGet(ns2, name) EXCEPT !.h5_source = source])

\* lines 115-121
deserialize_callable_in_namespace(name, source, ns) ==
    IF source = None
    THEN IF DictHas(ns, name) THEN Ok(DictGet(ns, name)) ELSE Raise("KeyError")
    ELSE safe_exec(source, ns, name)

\* lines 110-112
deserialize_callable(name, source, module_strs) ==
    deserialize_callable_in_namespace(name, source,
        namespace_for_modules([i \in 1..Len(module_strs) |-> str_to_module(module_strs[i])]))

-----------------------------------------------------------------------------
(* 4.4 The gate serialize_callable_and_test, one action per call it makes. *)

\* A sandboxed namespace that keeps every key.
mock_namespace_unfiltered(ns) == [i \in 1..Len(ns) |-> <<ns[i][1], MagicMock>>]

\* lines 27-28
mock_namespace_of(ns) ==
    LET kept == SelectSeq(ns, LAMBDA p : ~IsDunder(p[1]))
    IN [i \in 1..Len(kept) |-> <<kept[i][1], MagicMock>>]

\* line 33 as the gate sees it: test_callable(f) returns or raises.
test_callable_result(f) ==
    IF f.kind # "function" THEN Raise("TypeError")
    ELSE IF f.src.body = "raises" THEN Raise("ValidationError")
    ELSE Ok(MagicMock)

\* A gate that returns the record without the sandboxed run.
AfterDeserializeNoTest(rec) == "l34"

\* line 24
AfterDeserialize(rec) == IF rec.source # None THEN "l26" ELSE "l34"

Raised(e) == [tag |-> "raised", record |-> NoRecord, err |-> e]
Returned(rec) == [tag |-> "returned", record |-> rec, err |-> ""]
Pending == [tag |-> "pending", record |-> NoRecord, err |-> ""]

SerIdle ==
    /\ sysmodules = <<>> /\ modules = <<>> /\ c = Absent /\ pc = "idle"
    /\ namespace = <<>> /\ serialized_c = NoRecord /\ rebuilt = Absent
    /\ mock_namespace = <<>> /\ mock_c_rebuilt = Absent /\ result = Pending
    /\ steps = <<>> /\ reser = Pending

SerInit ==
    /\ sysmodules \in {reg \in [ModuleNames -> ModuleObjects] :
                          \A n \in ModuleNames : reg[n].name = n}
    /\ modules \in UNION {[1..n -> {sysmodules[m] : m \in ModuleNames}] : n \in 0..MaxModules}
    /\ c \in Callables
    /\ pc = "l21"
    /\ namespace = <<>> /\ serialized_c = NoRecord /\ rebuilt = Absent
    /\ mock_namespace = <<>> /\ mock_c_rebuilt = Absent /\ result = Pending
    /\ steps = <<>> /\ reser = Pending

\* line 21
Serialize ==
    /\ pc = "l21"
    /\ LET r == serialize_callable(c, modules)
       IN /\ namespace' = namespace_for_modules(modules)
          /\ IF r.tag = "ok"
             THEN /\ serialized_c' = r.val /\ pc' = "l23"
                  /\ steps' = Append(steps, "serialize") /\ result' = result
             ELSE /\ serialized_c' = serialized_c /\ pc' = "raised"
                  /\ steps' = steps /\ result' = Raised(r.err)
    /\ UNCHANGED <<sysmodules, modules, c, rebuilt, mock_namespace, mock_c_rebuilt, reser>>
    /\ UNCHANGED <<srcVars, valVars>>

\* lines 23-24
Deserialize ==
    /\ pc = "l23"
    /\ LET r == deserialize_callable(serialized_c.name, serialized_c.source,
                                     serialized_c.modules)
       IN IF r.tag = "ok"
          THEN /\ rebuilt' = r.val /\ pc' = AfterDeserialize(serialized_c)
               /\ steps' = Append(steps, "deserialize") /\ result' = result
          ELSE /\ rebuilt' = rebuilt /\ pc' = "raised"
               /\ steps' = steps /\ result' = Raised(r.err)
    /\ UNCHANGED <<sysmodules, modules, c, namespace, serialized_c, mock_namespace,
                   mock_c_rebuilt, reser>>
    /\ UNCHANGED <<srcVars, valVars>>

\* lines 26-28
BuildMockNamespace ==
    /\ pc = "l26"
    /\ namespace' = namespace_for_modules(modules)
    /\ mock_namespace' = mock_namespace_of(namespace')
    /\ pc' = "l31"
    /\ steps' = Append(steps, "mock_namespace")
    /\ UNCHANGED <<sysmodules, modules, c, serialized_c, rebuilt, mock_c_rebuilt,
                   result, reser>>
    /\ UNCHANGED <<srcVars, valVars>>

\* lines 31-32
DeserializeInMock ==
    /\ pc = "l31"
    /\ LET r == deserialize_callable_in_namespace(serialized_c.name,
                    serialized_c.source, mock_namespace)
       IN IF r.tag = "ok"
          THEN /\ mock_c_rebuilt' = r.val /\ pc' = "l33"
               /\ steps' = Append(steps, "mock_deserialize") /\ result' = result
          ELSE /\ mock_c_rebuilt' = mock_c_rebuilt /\ pc' = "raised"
               /\ steps' = steps /\ result' = Raised(r.err)
    /\ UNCHANGED <<sysmodules, modules, c, namespace, serialized_c, rebuilt,
                   mock_namespace, reser>>
    /\ UNCHANGED <<srcVars, valVars>>

\* line 33
TestCallable ==
    /\ pc = "l33"
    /\ LET r == test_callable_result(mock_c_rebuilt)
       IN IF r.tag = "ok"
          THEN /\ pc' = "l34" /\ steps' = Append(steps, "test_callable")
               /\ result' = result
          ELSE /\ pc' = "raised" /\ steps' = steps /\ result' = Raised(r.err)
    /\ UNCHANGED <<sysmodules, modules, c, namespace, serialized_c, rebuilt,
                   mock_namespace, mock_c_rebuilt, reser>>
    /\ UNCHANGED <<srcVars, valVars>>

\* line 34
Return ==
    /\ pc = "l34"
    /\ result' = Returned(serialized_c)
    /\ pc' = "returned"
    /\ steps' = Append(steps, "return")
    /\ UNCHANGED <<sysmodules, modules, c, namespace, serialized_c, rebuilt,
                   mock_namespace, mock_c_rebuilt, reser>>
    /\ UNCHANGED <<srcVars, valVars>>

\* The caller serializes, against the same modules, the callable that
\* deserialize_callable (lines 110-121) gave back.
Reserialize ==
    /\ pc = "returned"
    /\ LET r == serialize_callable(rebuilt, modules)
       IN reser' = IF r.tag = "ok" THEN Returned(r.val) ELSE Raised(r.err)
    /\ pc' = "reserialized"
    /\ UNCHANGED <<sysmodules, modules, c, namespace, serialized_c, rebuilt,
                   mock_namespace, mock_c_rebuilt, result, steps>>
    /\ UNCHANGED <<srcVars, valVars>>


-----------------------------------------------------------------------------
(* extract_source on the text itself: a text is a sequence of characters.  *)

Chars == {" ", "x", "\n"}
Whitespace == {" "}

RECURSIVE splitlines(_)
\* str.splitlines(): no empty last line after a final line break.
splitlines(t) ==
    IF t = <<>> THEN <<>>
    ELSE IF \E i \in 1..Len(t) : t[i] = "\n"
         THEN LET i == CHOOSE i \in 1..Len(t) :
                          t[i] = "\n" /\ \A j \in 1..(i - 1) : t[j] # "\n"
              IN <<SubSeq(t, 1, i - 1)>> \o splitlines(SubSeq(t, i + 1, Len(t)))
         ELSE <<t>>

RECURSIVE lstrip(_)
\* str.lstrip()
lstrip(l) ==
    IF l # <<>> /\ Head(l) \in Whitespace THEN lstrip(Tail(l)) ELSE l

RECURSIVE join(_)
\* '\n'.join(lines)
join(lines) ==
    IF lines = <<>> THEN <<>>
    ELSE IF Len(lines) = 1 THEN lines[1]
    ELSE lines[1] \o <<"\n">> \o join(Tail(lines))

\* l[k:]
SliceFrom(l, k) == SubSeq(l, k + 1, Len(l))

\* lines 101-107
extract_source(source) ==
    LET lines == splitlines(source)
        l == lines[1]
        leading_space == Len(l) - Len(lstrip(l))
    IN join([i \in 1..Len(lines) |-> SliceFrom(lines[i], leading_space)])

\* inspect.getsource gives a text whose first line holds the def (or a
\* decorator): it is not empty and not blank.
SourceTexts ==
    {t \in UNION {[1..n -> Chars] : n \in 1..MaxText} :
        splitlines(t) # <<>> /\ lstrip(splitlines(t)[1]) # <<>>}

SrcIdle == text = <<>> /\ extracted = <<>> /\ xpc = "idle"

SrcInit == text \in SourceTexts /\ extracted = <<>> /\ xpc = "call"

ExtractSource ==
    /\ xpc = "call"
    /\ extracted' = extract_source(text)
    /\ xpc' = "done"
    /\ UNCHANGED <<text, serVars, valVars>>


-----------------------------------------------------------------------------
(* test_callable and the process-wide import hook builtins.__import__.     *)
(* A hook is the builtin import, an import function installed before       *)
(* (which imports for real), the MagicMock that patch installs for run t   *)
(* (its side_effect is import_mock of run t), or import_mock of run t.     *)

AllThreads == {1, 2}
Hook(k, t) == [kind |-> k, owner |-> t]
Builtin == Hook("builtin", 0)
Custom == Hook("custom", 0)
PatchMock(t) == Hook("patch", t)
ImportMock(t) == Hook("import_mock", t)
NoHook == Hook("unset", 0)

IsInterceptor(h) == h.kind \in {"patch", "import_mock"}

Top(t) == stack[t][Len(stack[t])]

\* patch.__enter__ saving the interceptor it has just installed.
SavedOriginalAfterInstall(t) == PatchMock(t)

\* patch.__enter__: original = getattr(builtins, '__import__')
SavedOriginal(t) == hook

\* Leaving the with block without putting anything back.
RestoredHookKept(t) == hook

\* patch.__exit__: setattr(builtins, '__import__', original)
RestoredHook(t) == temp_original[t]

ValIdle ==
    /\ threads = {} /\ hook = NoHook /\ hook0 = NoHook
    /\ entry = <<>> /\ tpc = <<>> /\ orig_import = <<>> /\ temp_original = <<>>
    /\ stack = <<>> /\ nimports = 0 /\ exists = <<>> /\ catches = <<>>
    /\ exc = <<>> /\ received = <<>> /\ handled = <<>>

ValInitWith(ths) ==
    /\ threads = ths
    /\ hook \in {Builtin, Custom}
    /\ hook0 = hook
    /\ entry = [t \in AllThreads |-> NoHook]
    /\ tpc = [t \in AllThreads |-> IF t \in ths THEN "l38" ELSE "off"]
    /\ orig_import = [t \in AllThreads |-> NoHook]
    /\ temp_original = [t \in AllThreads |-> NoHook]
    /\ stack = [t \in AllThreads |-> <<>>]
    /\ nimports = 0
    /\ exists = [t \in AllThreads |-> FALSE]
    /\ catches = [t \in AllThreads |-> FALSE]
    /\ exc = [t \in AllThreads |-> ""]
    /\ received = [t \in AllThreads |-> {}]
    /\ handled = [t \in AllThreads |-> {}]

\* lines 38-39: getargspec(c) raises TypeError when c is no Python function.
Enter(t) ==
    /\ tpc[t] = "l38"
    /\ entry' = [entry EXCEPT ![t] = hook]
    /\ \E isfunction \in BOOLEAN :
          IF isfunction
          THEN tpc' = [tpc EXCEPT ![t] = "l49"] /\ exc' = exc
          ELSE tpc' = [tpc EXCEPT ![t] = "done"] /\ exc' = [exc EXCEPT ![t] = "TypeError"]
    /\ UNCHANGED <<threads, hook, hook0, orig_import, temp_original, stack,
                   nimports, exists, catches, received, handled>>
    /\ UNCHANGED <<serVars, srcVars>>

\* line 49
SaveOrigImport(t) ==
    /\ tpc[t] = "l49"
    /\ orig_import' = [orig_import EXCEPT ![t] = hook]
    /\ tpc' = [tpc EXCEPT ![t] = "l66_get"]
    /\ UNCHANGED <<threads, hook, hook0, entry, temp_original, stack, nimports,
                   exists, catches, exc, received, handled>>
    /\ UNCHANGED <<serVars, srcVars>>

\* line 66, patch.__enter__: read the original
PatchEnterGet(t) ==
    /\ tpc[t] = "l66_get"
    /\ temp_original' = [temp_original EXCEPT ![t] = SavedOriginal(t)]
    /\ tpc' = [tpc EXCEPT ![t] = "l66_set"]
    /\ UNCHANGED <<threads, hook, hook0, entry, orig_import, stack, nimports,
                   exists, catches, exc, received, handled>>
    /\ UNCHANGED <<serVars, srcVars>>

\* line 66, patch.__enter__: install the MagicMock
PatchEnterSet(t) ==
    /\ tpc[t] = "l66_set"
    /\ hook' = PatchMock(t)
    /\ tpc' = [tpc EXCEPT ![t] = "l67"]
    /\ UNCHANGED <<threads, hook0, entry, orig_import, temp_original, stack,
                   nimports, exists, catches, exc, received, handled>>
    /\ UNCHANGED <<serVars, srcVars>>

\* line 67: the callable runs an import statement; the module exists or not,
\* and the statement is inside a try/except ImportError or not. The
\* statement calls whatever builtins.__import__ is at that moment.
CallableImports(t) ==
    /\ tpc[t] = "l67"
    /\ nimports < MaxImports
    /\ nimports' = nimports + 1
    /\ \E ex \in BOOLEAN, ca \in BOOLEAN :
          IF IsInterceptor(hook)
          THEN /\ stack' = [stack EXCEPT ![t] = <<hook.owner>>]
               /\ exists' = [exists EXCEPT ![t] = ex]
               /\ catches' = [catches EXCEPT ![t] = ca]
               /\ handled' = [handled EXCEPT ![t] = @ \cup {"interceptor"}]
               /\ tpc' = [tpc EXCEPT ![t] = "l57"]
               /\ UNCHANGED <<exc, received>>
          ELSE /\ handled' = [handled EXCEPT ![t] = @ \cup {"real import"}]
               /\ received' = [received EXCEPT ![t] =
                                  @ \cup {IF ex THEN "module" ELSE "ImportError"}]
               /\ tpc' = [tpc EXCEPT ![t] = IF ex \/ ca THEN "l67" ELSE "exit"]
               /\ exc' = [exc EXCEPT ![t] = IF ex \/ ca THEN "" ELSE "ImportError"]
               /\ UNCHANGED <<stack, exists, catches>>
    /\ UNCHANGED <<threads, hook, hook0, entry, orig_import, temp_original>>
    /\ UNCHANGED <<serVars, srcVars>>

\* line 67: the callable's body raises
CallableRaises(t) ==
    /\ tpc[t] = "l67"
    /\ exc' = [exc EXCEPT ![t] = "Exception"]
    /\ tpc' = [tpc EXCEPT ![t] = "exit"]
    /\ UNCHANGED <<threads, hook, hook0, entry, orig_import, temp_original, stack,
                   nimports, exists, catches, received, handled>>
    /\ UNCHANGED <<serVars, srcVars>>

\* line 67: the callable returns
CallableReturns(t) ==
    /\ tpc[t] = "l67"
    /\ tpc' = [tpc EXCEPT ![t] = "exit"]
    /\ UNCHANGED <<threads, hook, hook0, entry, orig_import, temp_original, stack,
                   nimports, exists, catches, exc, received, handled>>
    /\ UNCHANGED <<serVars, srcVars>>

\* line 57, in import_mock of run Top(t)
ImportMockRestore(t) ==
    /\ tpc[t] = "l57"
    /\ hook' = orig_import[Top(t)]
    /\ tpc' = [tpc EXCEPT ![t] = "l58"]
    /\ UNCHANGED <<threads, hook0, entry, orig_import, temp_original, stack,
                   nimports, exists, catches, exc, received, handled>>
    /\ UNCHANGED <<serVars, srcVars>>

\* line 58: orig_import(name). The saved import is another run's interceptor
\* (a nested call of its import_mock), or it imports for real: it returns, or
\* it raises ImportError through every import_mock on the stack (none has a
\* handler) into the callable.
ImportMockCheck(t) ==
    /\ tpc[t] = "l58"
    /\ IF IsInterceptor(orig_import[Top(t)])
       THEN /\ stack' = [stack EXCEPT ![t] = Append(@, orig_import[Top(t)].owner)]
            /\ tpc' = [tpc EXCEPT ![t] = "l57"]
            /\ UNCHANGED <<exists, catches, exc, received>>
       ELSE IF exists[t]
       THEN /\ tpc' = [tpc EXCEPT ![t] = "l61"]
            /\ UNCHANGED <<stack, exists, catches, exc, received>>
       ELSE /\ stack' = [stack EXCEPT ![t] = <<>>]
            /\ received' = [received EXCEPT ![t] = @ \cup {"ImportError"}]
            /\ tpc' = [tpc EXCEPT ![t] = IF catches[t] THEN "l67" ELSE "exit"]
            /\ exc' = [exc EXCEPT ![t] = IF catches[t] THEN "" ELSE "ImportError"]
            /\ exists' = [exists EXCEPT ![t] = FALSE]
            /\ catches' = [catches EXCEPT ![t] = FALSE]
    /\ UNCHANGED <<threads, hook, hook0, entry, orig_import, temp_original,
                   nimports, handled>>
    /\ UNCHANGED <<serVars, srcVars>>

\* line 61
ImportMockReinstall(t) ==
    /\ tpc[t] = "l61"
    /\ hook' = ImportMock(Top(t))
    /\ tpc' = [tpc EXCEPT ![t] = "l63"]
    /\ UNCHANGED <<threads, hook0, entry, orig_import, temp_original, stack,
                   nimports, exists, catches, exc, received, handled>>
    /\ UNCHANGED <<serVars, srcVars>>

\* line 63: return MagicMock(), to the import_mock that called (it goes on
\* at line 61) or to the callable.
ImportMockReturn(t) ==
    /\ tpc[t] = "l63"
    /\ stack' = [stack EXCEPT ![t] = SubSeq(@, 1, Len(@) - 1)]
    /\ IF Len(stack[t]) > 1
       THEN /\ tpc' = [tpc EXCEPT ![t] = "l61"]
            /\ UNCHANGED <<exists, catches, received>>
       ELSE /\ tpc' = [tpc EXCEPT ![t] = "l67"]
            /\ received' = [received EXCEPT ![t] = @ \cup {"mock"}]
            /\ exists' = [exists EXCEPT ![t] = FALSE]
            /\ catches' = [catches EXCEPT ![t] = FALSE]
    /\ UNCHANGED <<threads, hook, hook0, entry, orig_import, temp_original,
                   nimports, exc, handled>>
    /\ UNCHANGED <<serVars, srcVars>>

\* line 66, patch.__exit__, with or without an exception in flight
PatchExit(t) ==
    /\ tpc[t] = "exit"
    /\ hook' = RestoredHook(t)
    /\ tpc' = [tpc EXCEPT ![t] = IF exc[t] = "" THEN "l71" ELSE "done"]
    /\ UNCHANGED <<threads, hook0, entry, orig_import, temp_original, stack,
                   nimports, exists, catches, exc, received, handled>>
    /\ UNCHANGED <<serVars, srcVars>>

\* line 71
AssertRestored(t) ==
    /\ tpc[t] = "l71"
    /\ exc' = [exc EXCEPT ![t] = IF hook = orig_import[t] THEN "" ELSE "AssertionError"]
    /\ tpc' = [tpc EXCEPT ![t] = "done"]
    /\ UNCHANGED <<threads, hook, hook0, entry, orig_import, temp_original, stack,
                   nimports, exists, catches, received, handled>>
    /\ UNCHANGED <<serVars, srcVars>>

-----------------------------------------------------------------------------
(* Specifications.                                                         *)

NextSer ==
    \/ Serialize
    \/ Deserialize
    \/ BuildMockNamespace
    \/ DeserializeInMock
    \/ TestCallable
    \/ Return
    \/ Reserialize

NextSrc == ExtractSource

NextVal ==
    \E t \in AllThreads :
        \/ Enter(t)
        \/ SaveOrigImport(t)
        \/ PatchEnterGet(t)
        \/ PatchEnterSet(t)
        \/ CallableImports(t)
        \/ CallableRaises(t)
        \/ CallableReturns(t)
        \/ ImportMockRestore(t)
        \/ ImportMockCheck(t)
        \/ ImportMockReinstall(t)
        \/ ImportMockReturn(t)
        \/ PatchExit(t)
        \/ AssertRestored(t)

InitSer == SerInit /\ SrcIdle /\ ValIdle
InitSrc == SerIdle /\ SrcInit /\ ValIdle
InitVal == SerIdle /\ SrcIdle /\ ValInitWith({1})
InitConc == SerIdle /\ SrcIdle /\ ValInitWith(AllThreads)

\* serialize_callable_and_test on one callable and one module list
SpecSer == InitSer /\ [][NextSer]_vars

\* extract_source on one text
SpecSrc == InitSrc /\ [][NextSrc]_vars

\* one run of test_callable (section 5 of the spec: single-threaded)
SpecVal == InitVal /\ [][NextVal]_vars

\* two runs of test_callable on two threads, no lock held by the caller
SpecConc == InitConc /\ [][NextVal]_vars

Spec == SpecSer

-----------------------------------------------------------------------------
(* The claims.                                                             *)

\* The merged namespace of a module list, stated without the code's loop:
\* the names any listed module has, each with its value in the last listed
\* module that has it.
MergedNames(ms) == {p[1] : p \in UNION {Members(ms[i]) : i \in 1..Len(ms)}}

LastDefining(ms, k) ==
    CHOOSE i \in 1..Len(ms) :
        /\ \E p \in Members(ms[i]) : p[1] = k
        /\ \A j \in (i + 1)..Len(ms) : ~\E p \in Members(ms[j]) : p[1] = k

MergedValue(ms, k) ==
    (CHOOSE p \in Members(ms[LastDefining(ms, k)]) : p[1] = k)[2]

MergedValues(ms) == {MergedValue(ms, k) : k \in MergedNames(ms)}

ModuleNamesOf(ms) == [i \in 1..Len(ms) |-> ms[i].name]

Done(step) == \E i \in 1..Len(steps) : steps[i] = step

AllDone == \A t \in threads : tpc[t] = "done"

\* C1: when a run of test_callable has returned or raised, on whichever
\* path, builtins.__import__ is the object it was when the run was entered.
C1_ImportHookRestored ==
    \A t \in threads : tpc[t] = "done" => hook = entry[t]

\* C1 witness: a run that returned after one intercepted import and one
\* failed import the callable caught.
C1_Witness ==
    /\ threads = {1} /\ tpc[1] = "done" /\ exc[1] = ""
    /\ received[1] = {"mock", "ImportError"}
    /\ hook = entry[1]

\* C2: a hashable callable c that is a value of the merged namespace is
\* serialized to a record without source whose name is bound to c in the
\* merged namespace, and deserialize_callable of that record returns c.
C2_DirectReferenceRoundTrip ==
    (pc # "l21" /\ callable(c) /\ c.hashable /\ c \in MergedValues(modules)) =>
        /\ pc # "raised"
        /\ serialized_c.source = None
        /\ serialized_c.name \in MergedNames(modules)
        /\ MergedValue(modules, serialized_c.name) = c
        /\ pc # "l23" => rebuilt = c

\* C2 witness: c is bound to two names of the second module, one of which
\* the first module defines too, and the round trip has given c back.
C2_Witness ==
    /\ pc = "returned" /\ Len(modules) = 2 /\ c = Fn1 /\ rebuilt = c
    /\ modules[1].attrs[NameF] = Fn2
    /\ modules[2].attrs[NameF] = Fn1 /\ modules[2].attrs[NameG] = Fn1

\* C3: serialize_callable of a callable that deserialize_callable rebuilt
\* from a record with source s, and that is no value of the merged
\* namespace, returns the record (its own name, s, the module names).
C3_ReserializeReusesAttachedSource ==
    (pc = "reserialized" /\ serialized_c.source # None
        /\ rebuilt \notin MergedValues(modules)) =>
        reser = Returned(SerializedCallable(rebuilt.name, rebuilt.h5_source,
                                            ModuleNamesOf(modules)))

\* C4: serialize_callable_and_test returns a record only after the
\* classification, then the deserialization against the real modules, then
\* (source present) the sandboxed deserialization and the call under
\* test_callable have all succeeded, in this order; a record without source
\* is returned after the first two; a step that raises gives the caller the
\* error and no record.
C4_SerializationGate ==
    /\ result.tag = "returned" =>
          /\ result.record = serialized_c
          /\ serialize_callable(c, modules) = Ok(serialized_c)
          /\ deserialize_callable(serialized_c.name, serialized_c.source,
                                  serialized_c.modules).tag = "ok"
          /\ IF serialized_c.source = None
             THEN steps = <<"serialize", "deserialize", "return">>
             ELSE /\ steps = <<"serialize", "deserialize", "mock_namespace",
                               "mock_deserialize", "test_callable", "return">>
                  /\ deserialize_callable_in_namespace(serialized_c.name,
                         serialized_c.source, mock_namespace) = Ok(mock_c_rebuilt)
                  /\ test_callable_result(mock_c_rebuilt).tag = "ok"
    /\ pc = "raised" => result.tag = "raised" /\ result.record = NoRecord
    /\ result.tag = "raised" => pc = "raised" /\ ~Done("return")
    /\ result.tag = "pending" => ~Done("return")

\* C4 witness: a record with source has been returned.
C4_Witness ==
    /\ result.tag = "returned" /\ result.record.source # None
    /\ Len(steps) > Len(<<"serialize", "deserialize", "return">>)

\* C5 as claimed: serialize_callable raises ValueError for every partial.
C5_EveryPartialRejected ==
    (pc # "l21" /\ c.kind = "partial") => result = Raised("ValueError")

\* C5 as amended: serialize_callable raises ValueError, and gives no record,
\* for every hashable partial that is no value of the merged namespace and
\* has no h5_source attribute.
C5_NovelPartialRejected ==
    (pc # "l21" /\ c.kind = "partial" /\ c.hashable
        /\ c \notin MergedValues(modules) /\ ~hasattr_h5_source(c)) =>
        /\ pc = "raised"
        /\ result = Raised("ValueError")
        /\ serialized_c = NoRecord

\* C5 witness: a partial that a loaded module binds, but no listed module,
\* has been rejected.
C5_Witness ==
    /\ pc = "raised" /\ result = Raised("ValueError")
    /\ c = Part1 /\ Len(modules) > 0
    /\ \E n \in ModuleNames : Part1 \in {p[2] : p \in Members(sysmodules[n])}

\* C6: the dict namespace_for_modules returns has the union of the listed
\* modules' member names as its keys, each once, and maps each to its value
\* in the last listed module that has it.
C6_NamespaceShadowing ==
    pc # "l21" =>
        /\ DictKeys(namespace) = MergedNames(modules)
        /\ Len(namespace) = Cardinality(MergedNames(modules))
        /\ \A k \in MergedNames(modules) :
              DictGet(namespace, k) = MergedValue(modules, k)

\* C6 witness: [A, B] both define f, with different values, and the
\* namespace built has B's.
C6_Witness ==
    /\ pc # "l21" /\ Len(modules) = 2
    /\ modules[1].attrs[NameF] = Fn1 /\ modules[2].attrs[NameF] = Fn2
    /\ DictGet(namespace, NameF) = Fn2

\* C7: every import of the callable under validation is handled by the
\* interceptor, the saved import is installed while the existence check
\* runs, the interceptor is installed again after a successful check, and
\* the callable never receives a real module.
C7_EveryImportIntercepted ==
    \A t \in threads :
        /\ handled[t] \subseteq {"interceptor"}
        /\ "module" \notin received[t]
        /\ tpc[t] = "l58" => hook = orig_import[Top(t)]
        /\ tpc[t] = "l63" => hook = ImportMock(Top(t))

\* C8 as claimed: the sandboxed namespace has the key set of the real
\* merged namespace, and only stand-ins as values.
C8_SandboxSameKeys ==
    Done("mock_namespace") =>
        /\ DictKeys(mock_namespace) = MergedNames(modules)
        /\ DictValues(mock_namespace) \subseteq {MagicMock}

\* C8 as amended: the sandboxed namespace has the keys of the real merged
\* namespace that do not both start and end with two underscores, and only
\* stand-ins as values.
C8_SandboxKeysWithoutDunders ==
    Done("mock_namespace") =>
        /\ DictKeys(mock_namespace) = {k \in MergedNames(modules) : ~IsDunder(k)}
        /\ Len(mock_namespace) = Cardinality(DictKeys(mock_namespace))
        /\ DictValues(mock_namespace) \subseteq {MagicMock}

\* C8 witness: a sandboxed namespace with f and g, built from a real one
\* that has __file__ too.
C8_Witness ==
    /\ Done("mock_namespace")
    /\ DictKeys(mock_namespace) = {NameF, NameG}
    /\ NameFile \in DictKeys(namespace)

\* str.split('\n'): the pieces between the line breaks.
RECURSIVE SplitOnBreaks(_)
SplitOnBreaks(t) ==
    IF \E i \in 1..Len(t) : t[i] = "\n"
    THEN LET i == CHOOSE i \in 1..Len(t) :
                     t[i] = "\n" /\ \A j \in 1..(i - 1) : t[j] # "\n"
         IN <<SubSeq(t, 1, i - 1)>> \o SplitOnBreaks(SubSeq(t, i + 1, Len(t)))
    ELSE <<t>>

LeadingWhitespace(l) ==
    IF \E i \in 1..Len(l) : l[i] \notin Whitespace
    THEN (CHOOSE i \in 1..Len(l) :
             l[i] \notin Whitespace /\ \A j \in 1..(i - 1) : l[j] \in Whitespace) - 1
    ELSE Len(l)

\* C9: extract_source returns as many lines as the text has, the first with
\* no leading whitespace, each the original line less at most k of its
\* leading whitespace characters (k the first line's leading whitespace):
\* no other character is removed.
C9_DedentRemovesOnlyWhitespace ==
    xpc = "done" =>
        LET orig == splitlines(text)
            res == SplitOnBreaks(extracted)
            k == LeadingWhitespace(orig[1])
        IN /\ Len(res) = Len(orig)
           /\ LeadingWhitespace(res[1]) = 0
           /\ \A i \in 1..Len(orig) :
                 \E n \in 0..k :
                    /\ n <= LeadingWhitespace(orig[i])
                    /\ res[i] = SubSeq(orig[i], n + 1, Len(orig[i]))

====
